---- MODULE Spec2Model ----
(***************************************************************************)
(* Model of data_model/src/metadata.rs: the Metadata container (a          *)
(* BTreeMap<Name, Value>), its flat operations (get, remove,               *)
(* insert_with_limits), its path operations (nested_get, nested_remove,    *)
(* nested_insert_with_limits) and the size check check_size_limits.        *)
(*                                                                         *)
(* A map is a TLA+ function whose DOMAIN is the set of keys present.       *)
(* A Value is a record: [tag |-> "String", s |-> <string>] (a leaf) or     *)
(* [tag |-> "LimitedMetadata", map |-> <map>] (a nested Metadata).         *)
(***************************************************************************)
EXTENDS Integers, Sequences, FiniteSets, TLC

VARIABLES metadata, pre, call, result, policy

vars == <<metadata, pre, call, result, policy>>

(* ------------------------------ bounds --------------------------------- *)

\* longest path handed to the nested operations
MaxPathLen == 3

\* largest number of entries, over all layers, the explored trees hold
MaxNodes == 3

\* largest Limits.max_len handed to an insertion
MaxLimitLen == 2

\* keys used by the calls (the tests use "0", "1", "2", "3")
Names == {"0", "1"}

\* keys used by the calls of a caller that keeps to one Limits
WideNames == {"0", "1", "2"}

\* Limits.max_entry_byte_size values handed to an insertion
ByteLimits == {4, 5, 9}

\* strings stored as leaves (from the tests), two of them of equal length
Strings == {"0", "1", "23456"}

(* ------------------------------ values --------------------------------- *)

EmptyMap == [k \in {} |-> 0]

StringValue(s) == [tag |-> "String", s |-> s]

MetadataValue(m) == [tag |-> "LimitedMetadata", map |-> m]

\* Option<Value>
None == [tag |-> "None"]

Some(v) == [tag |-> "Some", v |-> v]

\* Result<Option<Value>>
Ok(o) == [tag |-> "Ok", val |-> o]

ErrLengthLimit(max) == [tag |-> "Err", kind |-> "LengthLimit", max |-> max]

ErrEmptyPath == [tag |-> "Err", kind |-> "EmptyPath"]

ErrNoMetadataForKey(k) == [tag |-> "Err", kind |-> "NoMetadataForKey", key |-> k]

ErrNonMetadataSegment(k) == [tag |-> "Err", kind |-> "NonMetadataSegment", key |-> k]

ErrEntrySize(max, actual) ==
    [tag |-> "Err", kind |-> "EntrySize", max |-> max, actual |-> actual]

Limits(max_len, max_entry_byte_size) ==
    [max_len |-> max_len, max_entry_byte_size |-> max_entry_byte_size]

(* --------------------- canonical (SCALE) encoding ---------------------- *)

\* bytes of a SCALE compact integer, used as the length prefix of strings
\* and maps
CompactLen(n) ==
    IF n < 64 THEN 1
    ELSE IF n < 16384 THEN 2
    ELSE IF n < 1073741824 THEN 4
    ELSE 5

\* a Name encodes as its string: length prefix, then the bytes
NameEncodedLen(k) == CompactLen(Len(k)) + Len(k)

RECURSIVE ValueEncodedLen(_)
RECURSIVE EntriesEncodedLen(_, _)

\* bytes of the entries of map m whose keys are in S
EntriesEncodedLen(m, S) ==
    IF S = {} THEN 0
    ELSE LET k == CHOOSE x \in S : TRUE
         IN  NameEncodedLen(k) + ValueEncodedLen(m[k])
               + EntriesEncodedLen(m, S \ {k})

\* an enum value encodes as one variant byte, then the payload
ValueEncodedLen(v) ==
    IF v.tag = "String"
    THEN 1 + CompactLen(Len(v.s)) + Len(v.s)
    ELSE 1 + CompactLen(Cardinality(DOMAIN v.map))
           + EntriesEncodedLen(v.map, DOMAIN v.map)

\* entry_bytes.len() of (key, value).encode()
EntryEncodedLen(k, v) == NameEncodedLen(k) + ValueEncodedLen(v)

(* --------------------------- limit enforcer ---------------------------- *)

\* mutant of check_size_limits: an entry of exactly the maximum is rejected
check_size_limits_ge(key, value, limits) ==
    LET byte_size == EntryEncodedLen(key, value)
    IN  IF byte_size >= limits.max_entry_byte_size
        THEN ErrEntrySize(limits.max_entry_byte_size, byte_size)
        ELSE None

\* mutant of check_size_limits: an entry one byte over the maximum passes
check_size_limits_lenient(key, value, limits) ==
    LET byte_size == EntryEncodedLen(key, value)
    IN  IF byte_size > limits.max_entry_byte_size + 1
        THEN ErrEntrySize(limits.max_entry_byte_size, byte_size)
        ELSE None

\* check_size_limits: Ok(()) is None, otherwise the entry-size error
check_size_limits(key, value, limits) ==
    LET byte_size == EntryEncodedLen(key, value)
    IN  IF byte_size > limits.max_entry_byte_size
        THEN ErrEntrySize(limits.max_entry_byte_size, byte_size)
        ELSE None

(* ------------------------------ flat layer ----------------------------- *)

\* BTreeMap::get
MapGet(map, key) == IF key \in DOMAIN map THEN Some(map[key]) ELSE None

\* BTreeMap::insert: the map after the insertion
MapInsert(map, key, value) ==
    [k \in DOMAIN map \cup {key} |-> IF k = key THEN value ELSE map[k]]

\* BTreeMap::remove: the map after the removal
MapRemove(map, key) == [k \in DOMAIN map \ {key} |-> map[k]]

\* Metadata::get
get(map, key) == MapGet(map, key)

\* Metadata::remove: <<map afterwards, returned value>>
remove(map, key) == <<MapRemove(map, key), MapGet(map, key)>>

\* mutant of insert_with_limits: the length check lets one entry too many in
insert_with_limits_gt(map, key, value, limits) ==
    IF Cardinality(DOMAIN map) > limits.max_len /\ key \notin DOMAIN map
    THEN <<map, ErrLengthLimit(limits.max_len)>>
    ELSE LET size == check_size_limits(key, value, limits)
         IN  IF size # None
             THEN <<map, size>>
             ELSE <<MapInsert(map, key, value), Ok(MapGet(map, key))>>

\* mutant of insert_with_limits: the length check does not exempt a key
\* that is already present
insert_with_limits_no_exemption(map, key, value, limits) ==
    IF Cardinality(DOMAIN map) >= limits.max_len
    THEN <<map, ErrLengthLimit(limits.max_len)>>
    ELSE LET size == check_size_limits(key, value, limits)
         IN  IF size # None
             THEN <<map, size>>
             ELSE <<MapInsert(map, key, value), Ok(MapGet(map, key))>>

\* mutant of insert_with_limits: the entry is stored before its size is
\* checked
insert_with_limits_insert_first(map, key, value, limits) ==
    IF Cardinality(DOMAIN map) >= limits.max_len /\ key \notin DOMAIN map
    THEN <<map, ErrLengthLimit(limits.max_len)>>
    ELSE LET size == check_size_limits(key, value, limits)
         IN  IF size # None
             THEN <<MapInsert(map, key, value), size>>
             ELSE <<MapInsert(map, key, value), Ok(MapGet(map, key))>>

\* mutant of insert_with_limits: the size check runs before the length check
insert_with_limits_size_first(map, key, value, limits) ==
    LET size == check_size_limits(key, value, limits)
    IN  IF size # None
        THEN <<map, size>>
        ELSE IF Cardinality(DOMAIN map) >= limits.max_len
                  /\ key \notin DOMAIN map
             THEN <<map, ErrLengthLimit(limits.max_len)>>
             ELSE <<MapInsert(map, key, value), Ok(MapGet(map, key))>>

\* Metadata::insert_with_limits: <<map afterwards, returned result>>
insert_with_limits(map, key, value, limits) ==
    IF Cardinality(DOMAIN map) >= limits.max_len /\ key \notin DOMAIN map
    THEN <<map, ErrLengthLimit(limits.max_len)>>
    ELSE LET size == check_size_limits(key, value, limits)
         IN  IF size # None
             THEN <<map, size>>
             ELSE <<MapInsert(map, key, value), Ok(MapGet(map, key))>>

(* ---------------------------- path navigator --------------------------- *)

\* path.last()
Last(path) == path[Len(path)]

\* path.iter().take(path.len() - 1)
Front(path) == SubSeq(path, 1, Len(path) - 1)

RECURSIVE Walk(_, _)
\* the loop over the non-terminal segments: the layer reached, or the
\* first segment that is absent or is not a LimitedMetadata
Walk(map, segments) ==
    IF segments = <<>> THEN [tag |-> "Layer", map |-> map]
    ELSE LET k == Head(segments)
         IN  IF k \notin DOMAIN map THEN [tag |-> "Absent", key |-> k]
             ELSE IF map[k].tag # "LimitedMetadata"
                  THEN [tag |-> "NotMetadata", key |-> k]
                  ELSE Walk(map[k].map, Tail(segments))

RECURSIVE ReplaceLayer(_, _, _)
\* the tree after the layer reached through segments (a mutable borrow in
\* the source) has become layer
ReplaceLayer(map, segments, layer) ==
    IF segments = <<>> THEN layer
    ELSE LET k == Head(segments)
         IN  [map EXCEPT ![k] =
                 MetadataValue(ReplaceLayer(map[k].map, Tail(segments), layer))]

\* Metadata::nested_get
nested_get(map, path) ==
    IF path = <<>> THEN None
    ELSE LET w == Walk(map, Front(path))
         IN  IF w.tag # "Layer" THEN None
             ELSE MapGet(w.map, Last(path))

\* mutant of nested_remove: a failed navigation falls back to the root
nested_remove_root_fallback(map, path) ==
    IF path = <<>> THEN <<map, None>>
    ELSE LET w == Walk(map, Front(path))
         IN  IF w.tag # "Layer"
             THEN <<MapRemove(map, Last(path)), MapGet(map, Last(path))>>
             ELSE <<ReplaceLayer(map, Front(path), MapRemove(w.map, Last(path))),
                    MapGet(w.map, Last(path))>>

\* mutant of nested_remove: the value is returned but stays in the map
nested_remove_keeps_entry(map, path) ==
    IF path = <<>> THEN <<map, None>>
    ELSE LET w == Walk(map, Front(path))
         IN  IF w.tag # "Layer" THEN <<map, None>>
             ELSE <<map, MapGet(w.map, Last(path))>>

\* mutant of nested_remove: a container the removal has emptied is removed
\* from the root as well
nested_remove_prunes_empty(map, path) ==
    IF path = <<>> THEN <<map, None>>
    ELSE LET w == Walk(map, Front(path))
         IN  IF w.tag # "Layer" THEN <<map, None>>
             ELSE IF Len(path) >= 2 /\ DOMAIN w.map = {Last(path)}
                  THEN <<MapRemove(map, Head(path)), MapGet(w.map, Last(path))>>
                  ELSE <<ReplaceLayer(map, Front(path),
                             MapRemove(w.map, Last(path))),
                         MapGet(w.map, Last(path))>>

\* Metadata::nested_remove: <<map afterwards, returned value>>
nested_remove(map, path) ==
    IF path = <<>> THEN <<map, None>>
    ELSE LET w == Walk(map, Front(path))
         IN  IF w.tag # "Layer" THEN <<map, None>>
             ELSE <<ReplaceLayer(map, Front(path), MapRemove(w.map, Last(path))),
                    MapGet(w.map, Last(path))>>

\* mutant of nested_insert_with_limits: the entry is stored under the first
\* segment of the path instead of the last
nested_insert_with_limits_first_key(map, path, value, limits) ==
    IF Cardinality(DOMAIN map) >= limits.max_len
    THEN <<map, ErrLengthLimit(limits.max_len)>>
    ELSE IF path = <<>> THEN <<map, ErrEmptyPath>>
    ELSE LET w == Walk(map, Front(path))
             key == Head(path)
         IN  IF w.tag = "Absent" THEN <<map, ErrNoMetadataForKey(w.key)>>
             ELSE IF w.tag = "NotMetadata"
                  THEN <<map, ErrNonMetadataSegment(w.key)>>
             ELSE LET size == check_size_limits(key, value, limits)
                  IN  IF size # None THEN <<map, size>>
                      ELSE LET r == insert_with_limits(w.map, key, value, limits)
                           IN  <<ReplaceLayer(map, Front(path), r[1]), r[2]>>

\* mutant of nested_insert_with_limits: the size check runs before the
\* navigation
nested_insert_with_limits_size_first(map, path, value, limits) ==
    IF Cardinality(DOMAIN map) >= limits.max_len
    THEN <<map, ErrLengthLimit(limits.max_len)>>
    ELSE IF path = <<>> THEN <<map, ErrEmptyPath>>
    ELSE LET w == Walk(map, Front(path))
             key == Last(path)
             size == check_size_limits(key, value, limits)
         IN  IF size # None THEN <<map, size>>
             ELSE IF w.tag = "Absent" THEN <<map, ErrNoMetadataForKey(w.key)>>
             ELSE IF w.tag = "NotMetadata"
                  THEN <<map, ErrNonMetadataSegment(w.key)>>
             ELSE LET r == insert_with_limits(w.map, key, value, limits)
                  IN  <<ReplaceLayer(map, Front(path), r[1]), r[2]>>

\* mutant of nested_insert_with_limits: a missing container under the
\* first segment of a two-segment path is created
nested_insert_with_limits_creates_path(map, path, value, limits) ==
    IF Cardinality(DOMAIN map) >= limits.max_len
    THEN <<map, ErrLengthLimit(limits.max_len)>>
    ELSE IF path = <<>> THEN <<map, ErrEmptyPath>>
    ELSE LET w == Walk(map, Front(path))
             key == Last(path)
         IN  IF w.tag = "Absent" /\ Len(path) = 2
             THEN <<MapInsert(map, path[1],
                        MetadataValue(MapInsert(EmptyMap, key, value))),
                    Ok(None)>>
             ELSE IF w.tag = "Absent" THEN <<map, ErrNoMetadataForKey(w.key)>>
             ELSE IF w.tag = "NotMetadata"
                  THEN <<map, ErrNonMetadataSegment(w.key)>>
             ELSE LET size == check_size_limits(key, value, limits)
                  IN  IF size # None THEN <<map, size>>
                      ELSE LET r == insert_with_limits(w.map, key, value, limits)
                           IN  <<ReplaceLayer(map, Front(path), r[1]), r[2]>>

\* mutant of nested_insert_with_limits: no length check on the root, only
\* the one of the layer that receives the entry
nested_insert_with_limits_no_root_guard(map, path, value, limits) ==
    IF path = <<>> THEN <<map, ErrEmptyPath>>
    ELSE LET w == Walk(map, Front(path))
             key == Last(path)
         IN  IF w.tag = "Absent" THEN <<map, ErrNoMetadataForKey(w.key)>>
             ELSE IF w.tag = "NotMetadata"
                  THEN <<map, ErrNonMetadataSegment(w.key)>>
             ELSE LET size == check_size_limits(key, value, limits)
                  IN  IF size # None THEN <<map, size>>
                      ELSE LET r == insert_with_limits(w.map, key, value, limits)
                           IN  <<ReplaceLayer(map, Front(path), r[1]), r[2]>>

\* mutant of nested_insert_with_limits: the layer reached gets the same
\* length check as the root, without the exemption of a key that is present
nested_insert_with_limits_layer_no_exemption(map, path, value, limits) ==
    IF Cardinality(DOMAIN map) >= limits.max_len
    THEN <<map, ErrLengthLimit(limits.max_len)>>
    ELSE IF path = <<>> THEN <<map, ErrEmptyPath>>
    ELSE LET w == Walk(map, Front(path))
             key == Last(path)
         IN  IF w.tag = "Absent" THEN <<map, ErrNoMetadataForKey(w.key)>>
             ELSE IF w.tag = "NotMetadata"
                  THEN <<map, ErrNonMetadataSegment(w.key)>>
             ELSE LET size == check_size_limits(key, value, limits)
                  IN  IF size # None THEN <<map, size>>
                      ELSE IF Cardinality(DOMAIN w.map) >= limits.max_len
                           THEN <<map, ErrLengthLimit(limits.max_len)>>
                           ELSE <<ReplaceLayer(map, Front(path),
                                      MapInsert(w.map, key, value)),
                                  Ok(MapGet(w.map, key))>>

\* Metadata::nested_insert_with_limits: <<map afterwards, returned result>>
nested_insert_with_limits(map, path, value, limits) ==
    IF Cardinality(DOMAIN map) >= limits.max_len
    THEN <<map, ErrLengthLimit(limits.max_len)>>
    ELSE IF path = <<>> THEN <<map, ErrEmptyPath>>
    ELSE LET w == Walk(map, Front(path))
             key == Last(path)
         IN  IF w.tag = "Absent" THEN <<map, ErrNoMetadataForKey(w.key)>>
             ELSE IF w.tag = "NotMetadata"
                  THEN <<map, ErrNonMetadataSegment(w.key)>>
             ELSE LET size == check_size_limits(key, value, limits)
                  IN  IF size # None THEN <<map, size>>
                      ELSE LET r == insert_with_limits(w.map, key, value, limits)
                           IN  <<ReplaceLayer(map, Front(path), r[1]), r[2]>>

(* --------------------------- size computation -------------------------- *)

RECURSIVE ValueLen(_)
RECURSIVE NestedLenOver(_, _)

\* mutant of NestedLenOver: the entry itself is not counted
NestedLenOver_values_only(m, S) ==
    IF S = {} THEN 0
    ELSE LET k == CHOOSE x \in S : TRUE
         IN  ValueLen(m[k]) + NestedLenOver(m, S \ {k})

\* self.map.iter().map(|(_, v)| 1 + v.len()).sum() over the keys in S
NestedLenOver(m, S) ==
    IF S = {} THEN 0
    ELSE LET k == CHOOSE x \in S : TRUE
         IN  (1 + ValueLen(m[k])) + NestedLenOver(m, S \ {k})

\* Metadata::nested_len
nested_len(map) == NestedLenOver(map, DOMAIN map)

\* Value::len: 1 for a string, nested_len() + 1 for a LimitedMetadata
ValueLen(v) ==
    IF v.tag = "LimitedMetadata" THEN nested_len(v.map) + 1 ELSE 1

\* usize
Usize(n) == [tag |-> "usize", n |-> n]

(* ------------------------------- inputs -------------------------------- *)

RECURSIVE SeqsOfLen(_)
SeqsOfLen(n) ==
    IF n = 0 THEN {<<>>}
    ELSE {Append(p, k) : p \in SeqsOfLen(n - 1), k \in Names}

Paths == UNION {SeqsOfLen(n) : n \in 0..MaxPathLen}

\* values handed to the insertions: strings, an empty Metadata
\* (Metadata::new().into()) and a Metadata holding one string
InputValues ==
    {StringValue(s) : s \in Strings}
      \cup {MetadataValue(EmptyMap)}
      \cup {MetadataValue(MapInsert(EmptyMap, "0", StringValue("0")))}

InputLimits ==
    {Limits(l, b) : l \in 0..MaxLimitLen, b \in ByteLimits}

RECURSIVE WideSeqsOfLen(_)
WideSeqsOfLen(n) ==
    IF n = 0 THEN {<<>>}
    ELSE {Append(p, k) : p \in WideSeqsOfLen(n - 1), k \in WideNames}

WidePaths == UNION {WideSeqsOfLen(n) : n \in 0..MaxPathLen}

RECURSIVE Conforms(_, _)
\* every layer of map could have been built under limits: at most max_len
\* entries, each of at most max_entry_byte_size bytes
Conforms(map, limits) ==
    /\ Cardinality(DOMAIN map) <= limits.max_len
    /\ \A k \in DOMAIN map :
           /\ EntryEncodedLen(k, map[k]) <= limits.max_entry_byte_size
           /\ map[k].tag = "LimitedMetadata" => Conforms(map[k].map, limits)

\* policy of a caller that hands any Limits to any call
AnyLimits == [any |-> TRUE]

\* what the caller hands to the calls: anything when the policy is
\* AnyLimits, otherwise the one Limits of the policy and values that
\* were built under it (one string of each length)
CallNames == IF policy = AnyLimits THEN Names ELSE WideNames

CallPaths == IF policy = AnyLimits THEN Paths ELSE WidePaths

CallLimits == IF policy = AnyLimits THEN InputLimits ELSE {policy}

CallValues ==
    IF policy = AnyLimits THEN InputValues
    ELSE {v \in InputValues \ {StringValue("1")} :
            v.tag = "LimitedMetadata" => Conforms(v.map, policy)}

RECURSIVE CountNodes(_)
RECURSIVE CountNodesIn(_, _)
CountNodesIn(m, S) ==
    IF S = {} THEN 0
    ELSE LET k == CHOOSE x \in S : TRUE
         IN  1 + (IF m[k].tag = "LimitedMetadata" THEN CountNodes(m[k].map) ELSE 0)
               + CountNodesIn(m, S \ {k})

\* entries of the whole tree, all layers together
CountNodes(m) == CountNodesIn(m, DOMAIN m)

(* ---------------------------- state machine ---------------------------- *)

\* no call has returned a value the caller still holds
NoCall == [op |-> "none"]

\* Metadata::new()
Init ==
    /\ metadata = EmptyMap
    /\ pre = EmptyMap
    /\ call = NoCall
    /\ result = None
    /\ policy = AnyLimits

\* Metadata::new() in the hands of a caller that keeps to one Limits
InitFixed ==
    /\ metadata = EmptyMap
    /\ pre = EmptyMap
    /\ call = NoCall
    /\ result = None
    /\ policy \in InputLimits

Get ==
    /\ call = NoCall
    /\ \E k \in CallNames :
        /\ call' = [op |-> "get", key |-> k]
        /\ pre' = metadata
        /\ result' = get(metadata, k)
        /\ metadata' = metadata
        /\ policy' = policy

Remove ==
    /\ call = NoCall
    /\ \E k \in CallNames :
        LET r == remove(metadata, k)
        IN  /\ call' = [op |-> "remove", key |-> k]
            /\ pre' = metadata
            /\ metadata' = r[1]
            /\ result' = r[2]
            /\ policy' = policy

InsertWithLimits ==
    /\ call = NoCall
    /\ \E k \in CallNames, v \in CallValues, l \in CallLimits :
        LET r == insert_with_limits(metadata, k, v, l)
        IN  /\ CountNodes(r[1]) <= MaxNodes
            /\ call' = [op |-> "insert_with_limits", key |-> k,
                        value |-> v, limits |-> l]
            /\ pre' = metadata
            /\ metadata' = r[1]
            /\ result' = r[2]
            /\ policy' = policy

NestedGet ==
    /\ call = NoCall
    /\ \E p \in CallPaths :
        /\ call' = [op |-> "nested_get", path |-> p]
        /\ pre' = metadata
        /\ result' = nested_get(metadata, p)
        /\ metadata' = metadata
        /\ policy' = policy

NestedRemove ==
    /\ call = NoCall
    /\ \E p \in CallPaths :
        LET r == nested_remove(metadata, p)
        IN  /\ call' = [op |-> "nested_remove", path |-> p]
            /\ pre' = metadata
            /\ metadata' = r[1]
            /\ result' = r[2]
            /\ policy' = policy

NestedInsertWithLimits ==
    /\ call = NoCall
    /\ \E p \in CallPaths, v \in CallValues, l \in CallLimits :
        LET r == nested_insert_with_limits(metadata, p, v, l)
        IN  /\ CountNodes(r[1]) <= MaxNodes
            /\ call' = [op |-> "nested_insert_with_limits", path |-> p,
                        value |-> v, limits |-> l]
            /\ pre' = metadata
            /\ metadata' = r[1]
            /\ result' = r[2]
            /\ policy' = policy

NestedLen ==
    /\ call = NoCall
    /\ call' = [op |-> "nested_len"]
    /\ pre' = metadata
    /\ result' = Usize(nested_len(metadata))
    /\ metadata' = metadata
    /\ policy' = policy

\* the caller drops the returned value; the operations are synchronous
\* calls on an exclusively borrowed container, one at a time
Return ==
    /\ call # NoCall
    /\ call' = NoCall
    /\ pre' = metadata
    /\ result' = None
    /\ metadata' = metadata
    /\ policy' = policy

Next ==
    \/ Get
    \/ Remove
    \/ InsertWithLimits
    \/ NestedGet
    \/ NestedRemove
    \/ NestedInsertWithLimits
    \/ NestedLen
    \/ Return

Spec == Init /\ [][Next]_vars

\* the same operations, every insertion under one fixed Limits
SpecFixed == InitFixed /\ [][Next]_vars

(* ------------------------- vocabulary of the claims -------------------- *)

IsInsert == call.op = "insert_with_limits"

IsNestedInsert == call.op = "nested_insert_with_limits"

IsErr(kind) == result.tag = "Err" /\ result.kind = kind

\* entry count of the container the call was made on
PreLen == Cardinality(DOMAIN pre)

RECURSIVE ValueAt(_, _)
\* the value found by following every key of segs (non-empty) from map,
\* None when a key is missing or a key before the last holds a leaf
ValueAt(map, segs) ==
    LET k == Head(segs)
    IN  IF k \notin DOMAIN map THEN None
        ELSE IF Len(segs) = 1 THEN Some(map[k])
        ELSE IF map[k].tag = "LimitedMetadata"
             THEN ValueAt(map[k].map, Tail(segs))
             ELSE None

\* the first i segments of path lead to a container
ContainerAt(map, path, i) ==
    LET r == ValueAt(map, SubSeq(path, 1, i))
    IN  r # None /\ r.v.tag = "LimitedMetadata"

\* positions of the non-terminal segments that do not lead to a container
BadSegments(map, path) ==
    {i \in 1..(Len(path) - 1) : ~ContainerAt(map, path, i)}

\* empty, or some non-terminal segment is missing or is not a container
Malformed(map, path) == path = <<>> \/ BadSegments(map, path) # {}

FirstBad(map, path) ==
    CHOOSE i \in BadSegments(map, path) :
        \A j \in BadSegments(map, path) : i <= j

(* -------------------------------- claims ------------------------------- *)

\* C1: insert_with_limits of a key that is not present, into a container
\* whose entry count is >= limits.max_len, returns the length-limit error
\* (reporting the configured maximum) and does not insert the key.
C1_NewKeyAtCapacityRejected ==
    (IsInsert /\ call.key \notin DOMAIN pre /\ PreLen >= call.limits.max_len)
        => /\ result = ErrLengthLimit(call.limits.max_len)
           /\ call.key \notin DOMAIN metadata

C1_Witness ==
    /\ IsInsert
    /\ call.key \notin DOMAIN pre
    /\ PreLen = call.limits.max_len
    /\ PreLen > 0
    /\ IsErr("LengthLimit")

\* C2: insert_with_limits of a key that is already present never returns
\* the length-limit error, whatever the entry count is relative to
\* limits.max_len; when the (key, value) encoding fits
\* limits.max_entry_byte_size it succeeds, returns the previous value and
\* leaves the entry count unchanged.
C2_ReplacementExempt ==
    (IsInsert /\ call.key \in DOMAIN pre)
        => /\ ~IsErr("LengthLimit")
           /\ (EntryEncodedLen(call.key, call.value)
                   <= call.limits.max_entry_byte_size
                 => /\ result = Ok(Some(pre[call.key]))
                    /\ Cardinality(DOMAIN metadata) = PreLen)

C2_Witness ==
    /\ IsInsert
    /\ call.key \in DOMAIN pre
    /\ PreLen > call.limits.max_len
    /\ result.tag = "Ok"
    /\ metadata[call.key] # pre[call.key]

\* C3: nested_insert_with_limits with a single-segment path [k], k already
\* present in the root, does not fail with the length-limit error even when
\* the root is at capacity, and replaces the value at k when the entry size
\* fits; its length-limit error on a single-segment path implies that the
\* root is at capacity and k is not an existing key of the root.
C3_NestedReplacementExemptAtRoot ==
    (IsNestedInsert /\ Len(call.path) = 1)
        => /\ (IsErr("LengthLimit")
                 => /\ PreLen >= call.limits.max_len
                    /\ call.path[1] \notin DOMAIN pre)
           /\ ((/\ call.path[1] \in DOMAIN pre
                /\ EntryEncodedLen(call.path[1], call.value)
                       <= call.limits.max_entry_byte_size)
                 => /\ result = Ok(Some(pre[call.path[1]]))
                    /\ metadata = MapInsert(pre, call.path[1], call.value))

\* C4: when the length check of insert_with_limits passes, the call returns
\* the entry-size error exactly when the (key, value) encoding is longer
\* than limits.max_entry_byte_size (an encoding of exactly that many bytes
\* is accepted), also when the key is already present.
C4_SizeErrorIffTooLong ==
    (IsInsert /\ ~(PreLen >= call.limits.max_len /\ call.key \notin DOMAIN pre))
        => LET size == EntryEncodedLen(call.key, call.value)
               max == call.limits.max_entry_byte_size
           IN  IF size > max
               THEN result = ErrEntrySize(max, size)
               ELSE result.tag = "Ok"

C4_Witness ==
    /\ IsInsert
    /\ call.key \in DOMAIN pre
    /\ PreLen >= call.limits.max_len
    /\ IsErr("EntrySize")
    /\ result.actual = call.limits.max_entry_byte_size + 1

\* C5: whenever insert_with_limits or nested_insert_with_limits returns an
\* error, the whole container tree is what it was before the call.
C5_AtomicRejection ==
    ((IsInsert \/ IsNestedInsert) /\ result.tag = "Err") => metadata = pre

C5_Witness ==
    /\ IsNestedInsert
    /\ Len(call.path) >= 2
    /\ IsErr("EntrySize")
    /\ ~Malformed(pre, call.path)
    /\ ValueAt(pre, call.path) # None
    /\ metadata = pre

\* C6: after a successful insert_with_limits(k, v, L), get(k) returns v;
\* after a successful nested_insert_with_limits(path, v, L),
\* nested_get(path) returns v.
C6_RoundTrip ==
    /\ (IsInsert /\ result.tag = "Ok")
           => get(metadata, call.key) = Some(call.value)
    /\ (IsNestedInsert /\ result.tag = "Ok")
           => nested_get(metadata, call.path) = Some(call.value)

C6_Witness ==
    /\ IsNestedInsert
    /\ Len(call.path) = 3
    /\ result.tag = "Ok"
    /\ call.path[1] # call.path[2]
    /\ nested_get(metadata, call.path) = Some(call.value)

\* C7: on a path that is empty or has a non-terminal segment that is
\* missing or is not a container, nested_get and nested_remove return
\* absent (nested_remove leaving the tree unchanged), and
\* nested_insert_with_limits returns an error, for every value and limits.
C7_AbsenceVersusError ==
    /\ (call.op = "nested_get" /\ Malformed(pre, call.path))
           => result = None
    /\ (call.op = "nested_remove" /\ Malformed(pre, call.path))
           => result = None /\ metadata = pre
    /\ (IsNestedInsert /\ Malformed(pre, call.path))
           => result.tag = "Err"

C7_Witness ==
    /\ call.op = "nested_remove"
    /\ Len(call.path) >= 2
    /\ Malformed(pre, call.path)
    /\ Last(call.path) \in DOMAIN pre
    /\ result = None

\* C8: nested_insert_with_limits with an empty path fails with the
\* empty-path error in every container state and for every limits, also
\* when the root's entry count is >= limits.max_len.
C8_EmptyPathErrorFirst ==
    (IsNestedInsert /\ call.path = <<>>) => result = ErrEmptyPath

\* C9: for a non-empty path and a root below capacity,
\* nested_insert_with_limits fails at the first bad non-terminal segment:
\* with the missing-key error naming it when it is absent from the current
\* container, with the non-container error naming it when its value is not
\* a container; an oversized value does not change that.
C9_FirstBadSegmentReported ==
    (/\ IsNestedInsert
     /\ call.path # <<>>
     /\ PreLen < call.limits.max_len
     /\ BadSegments(pre, call.path) # {})
        => LET i == FirstBad(pre, call.path)
           IN  IF ValueAt(pre, SubSeq(call.path, 1, i)) = None
               THEN result = ErrNoMetadataForKey(call.path[i])
               ELSE result = ErrNonMetadataSegment(call.path[i])

C9_Witness ==
    /\ IsNestedInsert
    /\ Len(call.path) = 3
    /\ BadSegments(pre, call.path) = {2}
    /\ call.path[1] # call.path[2]
    /\ EntryEncodedLen(Last(call.path), call.value)
           > call.limits.max_entry_byte_size
    /\ IsErr("NonMetadataSegment")

\* C10: in insert_with_limits the length check precedes the size check: a
\* new key into a container at capacity with a (key, value) encoding longer
\* than limits.max_entry_byte_size gets the length-limit error, not the
\* entry-size error.
C10_LengthCheckBeforeSizeCheck ==
    (/\ IsInsert
     /\ call.key \notin DOMAIN pre
     /\ PreLen >= call.limits.max_len
     /\ EntryEncodedLen(call.key, call.value)
            > call.limits.max_entry_byte_size)
        => IsErr("LengthLimit") /\ ~IsErr("EntrySize")

C10_Witness ==
    /\ IsInsert
    /\ call.key \notin DOMAIN pre
    /\ PreLen >= call.limits.max_len
    /\ EntryEncodedLen(call.key, call.value)
           > call.limits.max_entry_byte_size
    /\ PreLen > 0
    /\ IsErr("LengthLimit")

(* ------------------- vocabulary of the frame claims -------------------- *)

\* p is a prefix of q (q is p or lies below p)
IsPrefix(p, q) == Len(p) <= Len(q) /\ SubSeq(q, 1, Len(p)) = p

\* what an entry holds, not looking inside a container
Shallow(v) ==
    IF v.tag = "LimitedMetadata" THEN [tag |-> "LimitedMetadata"] ELSE v

RECURSIVE Entries(_)
\* every entry of the tree, at every layer, as <<path to it, Shallow value>>
Entries(map) ==
    UNION {{<<(<<k>>), Shallow(map[k])>>}
             \cup (IF map[k].tag = "LimitedMetadata"
                   THEN {<<(<<k>>) \o e[1], e[2]>> : e \in Entries(map[k].map)}
                   ELSE {})
           : k \in DOMAIN map}

\* the entries that are neither at path nor below it
EntriesOutside(map, path) == {e \in Entries(map) : ~IsPrefix(path, e[1])}

IsNestedOp ==
    call.op \in {"nested_get", "nested_remove", "nested_insert_with_limits"}

\* C11: a successful nested_insert_with_limits(path, v, L) was given a path
\* whose non-terminal segments all lead to containers, stores v at the path,
\* returns the value previously there (absent if none) and leaves every
\* entry that is not at or below the path, at every layer, as it was; no
\* nested operation makes a non-terminal segment that led to no container
\* lead to one.
C11_NoImplicitPathConstruction ==
    /\ (IsNestedInsert /\ result.tag = "Ok")
           => /\ ~Malformed(pre, call.path)
              /\ result = Ok(ValueAt(pre, call.path))
              /\ ValueAt(metadata, call.path) = Some(call.value)
              /\ EntriesOutside(metadata, call.path)
                     = EntriesOutside(pre, call.path)
    /\ IsNestedOp
           => \A i \in 1..(Len(call.path) - 1) :
                  ~ContainerAt(pre, call.path, i)
                      => ~ContainerAt(metadata, call.path, i)

C11_Witness ==
    /\ IsNestedInsert
    /\ result.tag = "Ok"
    /\ Len(call.path) >= 2
    /\ result.val # None
    /\ Cardinality(Entries(pre)) = 3
    /\ metadata # pre

\* C12: remove(k) of an absent key, and nested_remove(path) of a path whose
\* navigation fails or whose terminal key is absent, return absent and
\* leave the whole tree unchanged; after a successful remove or
\* nested_remove, the same call made again returns absent and changes
\* nothing.
C12_IdempotentRemove ==
    /\ (call.op = "remove" /\ call.key \notin DOMAIN pre)
           => result = None /\ metadata = pre
    /\ (/\ call.op = "nested_remove"
        /\ (Malformed(pre, call.path) \/ ValueAt(pre, call.path) = None))
           => result = None /\ metadata = pre
    /\ (call.op = "remove" /\ result # None)
           => remove(metadata, call.key) = <<metadata, None>>
    /\ (call.op = "nested_remove" /\ result # None)
           => nested_remove(metadata, call.path) = <<metadata, None>>

C12_Witness ==
    /\ call.op = "nested_remove"
    /\ Len(call.path) >= 2
    /\ result # None
    /\ metadata # pre
    /\ nested_remove(metadata, call.path) = <<metadata, None>>

RECURSIVE DirectSum(_, _)
\* the sum of 1 + size(value) over the direct entries of m with keys in S
DirectSum(m, S) ==
    IF S = {} THEN 0
    ELSE LET k == CHOOSE x \in S : TRUE
         IN  1 + ValueLen(m[k]) + DirectSum(m, S \ {k})

\* root{a: {b: {c: leaf}}}: three nested segments, one entry per layer
IsChain3(map) ==
    /\ Cardinality(Entries(map)) = 3
    /\ \E e \in Entries(map) : Len(e[1]) = 3 /\ e[2].tag = "String"

RECURSIVE AllEntriesFit(_, _)
\* every entry of the tree, at every layer, encodes in at most max bytes
AllEntriesFit(map, max) ==
    \A k \in DOMAIN map :
        /\ EntryEncodedLen(k, map[k]) <= max
        /\ map[k].tag = "LimitedMetadata" => AllEntriesFit(map[k].map, max)

RECURSIVE AllLeafEntriesFit(_, _)
\* every entry of the tree whose value is a leaf encodes in at most max bytes
AllLeafEntriesFit(map, max) ==
    \A k \in DOMAIN map :
        IF map[k].tag = "LimitedMetadata"
        THEN AllLeafEntriesFit(map[k].map, max)
        ELSE EntryEncodedLen(k, map[k]) <= max

\* the key an insertion stores under
StoredKey == IF IsInsert THEN call.key ELSE Last(call.path)

\* C14 (as claimed): under one fixed Limits, every stored entry at every
\* layer encodes in at most max_entry_byte_size bytes, also an entry whose
\* value is a container that later nested insertions have grown.
C14_AllEntriesFitUnderFixedLimits ==
    policy # AnyLimits => AllEntriesFit(metadata, policy.max_entry_byte_size)

\* C14 (amended): under one fixed Limits, every stored entry whose value is
\* a leaf, at every layer, encodes in at most max_entry_byte_size bytes,
\* and every entry an insertion stores encodes in at most that many bytes
\* when it is stored.
C14_LeafAndStoredEntriesFit ==
    policy # AnyLimits
        => /\ AllLeafEntriesFit(metadata, policy.max_entry_byte_size)
           /\ ((IsInsert \/ IsNestedInsert) /\ result.tag = "Ok")
                  => EntryEncodedLen(StoredKey, call.value)
                         <= policy.max_entry_byte_size

\* a nested insertion that fits grows a container entry past the maximum
C14_Witness ==
    /\ policy # AnyLimits
    /\ IsNestedInsert
    /\ result.tag = "Ok"
    /\ AllEntriesFit(pre, policy.max_entry_byte_size)
    /\ ~AllEntriesFit(metadata, policy.max_entry_byte_size)
    /\ AllLeafEntriesFit(metadata, policy.max_entry_byte_size)

RECURSIVE AllLayersWithin(_, _)
\* the container and every container nested in it hold at most max entries
AllLayersWithin(map, max) ==
    /\ Cardinality(DOMAIN map) <= max
    /\ \A k \in DOMAIN map :
           map[k].tag = "LimitedMetadata" => AllLayersWithin(map[k].map, max)

\* C15: under one fixed Limits, the root and every nested container hold
\* at most max_len direct entries in every reachable state (keys are
\* unique in every container: a map is a function of its keys).
C15_EntryCountWithinLimit ==
    policy # AnyLimits => AllLayersWithin(metadata, policy.max_len)

\* a nested container is full and a new key for it has been rejected
C15_Witness ==
    /\ policy # AnyLimits
    /\ IsNestedInsert
    /\ Len(call.path) = 2
    /\ PreLen < policy.max_len
    /\ IsErr("LengthLimit")
    /\ Cardinality(DOMAIN pre[call.path[1]].map) = policy.max_len

\* C16: for a path of two or more segments, nested_insert_with_limits fails
\* with the length-limit error whenever the root holds >= limits.max_len
\* entries, whatever the destination container holds and whether or not
\* the terminal key exists there, and leaves the tree unchanged.
C16_RootScopedLengthGuard ==
    (IsNestedInsert /\ Len(call.path) >= 2 /\ PreLen >= call.limits.max_len)
        => /\ result = ErrLengthLimit(call.limits.max_len)
           /\ metadata = pre

\* the root is full, the terminal key exists in the destination container
\* and the entry fits
C16_Witness ==
    /\ IsNestedInsert
    /\ Len(call.path) >= 2
    /\ PreLen >= call.limits.max_len
    /\ call.limits.max_len > 0
    /\ ~Malformed(pre, call.path)
    /\ ValueAt(pre, call.path) # None
    /\ EntryEncodedLen(Last(call.path), call.value)
           <= call.limits.max_entry_byte_size
    /\ IsErr("LengthLimit")

\* the container the first Len(path) - 1 segments of path lead to
DestinationLayer(map, path) ==
    IF Len(path) = 1 THEN map ELSE ValueAt(map, Front(path)).v.map

\* C17: when the path is well formed, the root is below capacity and the
\* (key, value) encoding fits, nested_insert_with_limits fails with the
\* length-limit error if the terminal key is new in the destination
\* container and that container holds >= limits.max_len entries, and
\* succeeds otherwise (the key exists there, or there is room).
C17_DestinationLayerEnforced ==
    (/\ IsNestedInsert
     /\ ~Malformed(pre, call.path)
     /\ PreLen < call.limits.max_len
     /\ EntryEncodedLen(Last(call.path), call.value)
            <= call.limits.max_entry_byte_size)
        => LET dest == DestinationLayer(pre, call.path)
           IN  IF /\ Last(call.path) \notin DOMAIN dest
                  /\ Cardinality(DOMAIN dest) >= call.limits.max_len
               THEN result = ErrLengthLimit(call.limits.max_len)
               ELSE result.tag = "Ok"

\* the root has room, the destination container is full, the key is new
C17_Witness ==
    /\ IsNestedInsert
    /\ Len(call.path) >= 2
    /\ ~Malformed(pre, call.path)
    /\ PreLen < call.limits.max_len
    /\ ValueAt(pre, call.path) = None
    /\ EntryEncodedLen(Last(call.path), call.value)
           <= call.limits.max_entry_byte_size
    /\ IsErr("LengthLimit")

\* C18: nested_remove on a path whose non-terminal segments all lead to
\* containers and whose terminal key is present returns the value that was
\* there and removes that entry (with what lay below it) and nothing else:
\* nested_get on the path is absent afterwards, the containers on the way
\* remain, also when now empty, and every other entry is unchanged.
C18_NestedRemoveRemovesOneEntry ==
    (/\ call.op = "nested_remove"
     /\ ~Malformed(pre, call.path)
     /\ ValueAt(pre, call.path) # None)
        => /\ result = ValueAt(pre, call.path)
           /\ nested_get(metadata, call.path) = None
           /\ Entries(metadata) = EntriesOutside(pre, call.path)

\* the removal has emptied a nested container, which is still there
C18_Witness ==
    /\ call.op = "nested_remove"
    /\ Len(call.path) = 3
    /\ result # None
    /\ ValueAt(metadata, Front(call.path)) = Some(MetadataValue(EmptyMap))
    /\ Cardinality(Entries(metadata)) = 2

====
